---- MODULE Spec2Model ----
(***************************************************************************)
(* Model of the employee time-tracking dashboard (src/app/page.tsx):        *)
(* the file-load handler, the filter handlers and the time-gap aggregation. *)
(*                                                                          *)
(* JavaScript strings are modelled as sequences of one-character strings,   *)
(* so that split, includes, trim, the regular expressions and the Date      *)
(* parser are computed character by character as the code computes them.    *)
(***************************************************************************)
EXTENDS Integers, Sequences, FiniteSets, Bags, TLC

VARIABLES
    data,                  \* useState: the working record set
    filteredData,          \* useState: the filtered record set
    selectedDate,          \* useState: date criterion
    selectedEmployee,      \* useState: employee-name criterion
    selectedEmployeeCode,  \* useState: employee-code criterion
    pending,               \* bag of files whose FileReader read is in flight
    legacyDateParse,       \* does the host's Date accept "YYYY-Mon-DD HH:MM:SS"
    lastOp                 \* history: the handler that ran last

vars == <<data, filteredData, selectedDate, selectedEmployee,
          selectedEmployeeCode, pending, legacyDateParse, lastOp>>

-----------------------------------------------------------------------------
(* Bounds *)

\* reads that may be in flight at once
MaxPending == 2

\* data rows of a generated sheet
MaxRows == 2

-----------------------------------------------------------------------------
(* JavaScript strings and values *)

Digits == <<"0", "1", "2", "3", "4", "5", "6", "7", "8", "9">>

Digit == {Digits[i] : i \in 1..10}

Letter ==
    {"A", "B", "C", "D", "E", "F", "G", "H", "I", "J", "K", "L", "M",
     "N", "O", "P", "Q", "R", "S", "T", "U", "V", "W", "X", "Y", "Z",
     "a", "b", "c", "d", "e", "f", "g", "h", "i", "j", "k", "l", "m",
     "n", "o", "p", "q", "r", "s", "t", "u", "v", "w", "x", "y", "z"}

\* the class \w of a regular expression
WordChar == Digit \cup Letter \cup {"_"}

EmptyStr == << >>

\* the value undefined (no sequence of characters equals it)
Undefined == <<"#undefined">>

\* String(x) inside a template literal
Str(x) == IF x = Undefined
          THEN <<"u", "n", "d", "e", "f", "i", "n", "e", "d">>
          ELSE x

\* array[i] with a 1-based index: undefined past the end
At(arr, i) == IF i \in 1..Len(arr) THEN arr[i] ELSE Undefined

DigitVal(c) == (CHOOSE i \in 1..10 : Digits[i] = c) - 1

AllDigits(s) == \A i \in 1..Len(s) : s[i] \in Digit

RECURSIVE DigitsToNat(_)
DigitsToNat(s) ==
    IF Len(s) = 0 THEN 0
    ELSE 10 * DigitsToNat(SubSeq(s, 1, Len(s) - 1)) + DigitVal(s[Len(s)])

\* String(n) for a non-negative integer n
RECURSIVE NatToStr(_)
NatToStr(n) ==
    IF n < 10 THEN <<Digits[n + 1]>>
    ELSE NatToStr(n \div 10) \o <<Digits[(n % 10) + 1]>>

\* s.split(c) for a one-character separator c
RECURSIVE SplitFrom(_, _, _, _)
SplitFrom(s, c, i, cur) ==
    IF i > Len(s) THEN <<cur>>
    ELSE IF s[i] = c THEN <<cur>> \o SplitFrom(s, c, i + 1, EmptyStr)
    ELSE SplitFrom(s, c, i + 1, Append(cur, s[i]))

Split(s, c) == SplitFrom(s, c, 1, EmptyStr)

\* s.includes(sub)
Includes(s, sub) ==
    \E i \in 0..(Len(s) - Len(sub)) : SubSeq(s, i + 1, i + Len(sub)) = sub

\* s.trim()
RECURSIVE Trim(_)
Trim(s) ==
    IF Len(s) = 0 THEN s
    ELSE IF s[1] = " " THEN Trim(Tail(s))
    ELSE IF s[Len(s)] = " " THEN Trim(SubSeq(s, 1, Len(s) - 1))
    ELSE s

\* /^\d+$/.test(s)
IsDigitString(s) == Len(s) > 0 /\ AllDigits(s)

-----------------------------------------------------------------------------
(* Date: a value is [valid, time]; time is in whole seconds of local time,   *)
(* in a zone without a clock change between the timestamps compared.         *)

InvalidDate == [valid |-> FALSE, time |-> 0]

\* days from 1970-01-01 to the civil date y-m-d (d past the month's end
\* rolls over, as MakeDay does)
DaysFromCivil(y, m, d) ==
    LET yy  == IF m <= 2 THEN y - 1 ELSE y
        era == yy \div 400
        yoe == yy - era * 400
        mp  == IF m > 2 THEN m - 3 ELSE m + 9
        doy == (153 * mp + 2) \div 5 + d - 1
        doe == yoe * 365 + yoe \div 4 - yoe \div 100 + doy
    IN  era * 146097 + doe - 719468

MakeDate(y, m, d, hh, mi, ss) ==
    IF /\ m \in 1..12 /\ d \in 1..31
       /\ mi \in 0..59 /\ ss \in 0..59
       /\ (hh \in 0..23 \/ (hh = 24 /\ mi = 0 /\ ss = 0))
    THEN [valid |-> TRUE,
          time  |-> DaysFromCivil(y, m, d) * 86400 + hh * 3600 + mi * 60 + ss]
    ELSE InvalidDate

\* "HH:MM:SS" at s[i..i+7]
IsClockAt(s, i) ==
    /\ Len(s) >= i + 7
    /\ \A k \in {i, i + 1, i + 3, i + 4, i + 6, i + 7} : s[k] \in Digit
    /\ s[i + 2] = ":" /\ s[i + 5] = ":"

\* the Date Time String Format "YYYY-MM-DDTHH:MM:SS" (local time); the
\* other forms of the format do not arise from parseDateTime's template
IsoParse(s) ==
    IF /\ Len(s) = 19
       /\ \A k \in {1, 2, 3, 4, 6, 7, 9, 10} : s[k] \in Digit
       /\ s[5] = "-" /\ s[8] = "-" /\ s[11] = "T"
       /\ IsClockAt(s, 12)
    THEN MakeDate(DigitsToNat(SubSeq(s, 1, 4)), DigitsToNat(SubSeq(s, 6, 7)),
                  DigitsToNat(SubSeq(s, 9, 10)), DigitsToNat(SubSeq(s, 12, 13)),
                  DigitsToNat(SubSeq(s, 15, 16)), DigitsToNat(SubSeq(s, 18, 19)))
    ELSE InvalidDate

MonthNames ==
    << <<"J", "a", "n">>, <<"F", "e", "b">>, <<"M", "a", "r">>,
       <<"A", "p", "r">>, <<"M", "a", "y">>, <<"J", "u", "n">>,
       <<"J", "u", "l">>, <<"A", "u", "g">>, <<"S", "e", "p">>,
       <<"O", "c", "t">>, <<"N", "o", "v">>, <<"D", "e", "c">> >>

IsMonthName(w) == \E i \in 1..12 : MonthNames[i] = w

MonthNumber(w) == CHOOSE i \in 1..12 : MonthNames[i] = w

\* monthMap[month]: "01".."12", or undefined for any other key
monthMap(month) ==
    IF IsMonthName(month)
    THEN (IF MonthNumber(month) < 10 THEN <<"0">> ELSE EmptyStr)
             \o NatToStr(MonthNumber(month))
    ELSE Undefined

\* A string outside the Date Time String Format: ECMA-262 leaves the result
\* to the host.  A host with the legacy fallback reads "YYYY-Mon-DD" and
\* "YYYY-Mon-DD HH:MM:SS" as local time; any other host, and any other
\* shape, gives an invalid Date.
LegacyParse(s) ==
    IF /\ legacyDateParse
       /\ Len(s) \in {11, 20}
       /\ \A k \in {1, 2, 3, 4, 10, 11} : s[k] \in Digit
       /\ s[5] = "-" /\ s[9] = "-"
       /\ IsMonthName(SubSeq(s, 6, 8))
       /\ (Len(s) = 20 => (s[12] = " " /\ IsClockAt(s, 13)))
    THEN IF Len(s) = 11
         THEN MakeDate(DigitsToNat(SubSeq(s, 1, 4)), MonthNumber(SubSeq(s, 6, 8)),
                       DigitsToNat(SubSeq(s, 10, 11)), 0, 0, 0)
         ELSE MakeDate(DigitsToNat(SubSeq(s, 1, 4)), MonthNumber(SubSeq(s, 6, 8)),
                       DigitsToNat(SubSeq(s, 10, 11)), DigitsToNat(SubSeq(s, 13, 14)),
                       DigitsToNat(SubSeq(s, 16, 17)), DigitsToNat(SubSeq(s, 19, 20)))
    ELSE InvalidDate

\* new Date(s)
NewDate(s) == IF IsoParse(s).valid THEN IsoParse(s) ELSE LegacyParse(s)

\* /(\d{2})-(\w{3})-(\d{4})/ matches s at position i
DateRegexAt(s, i) ==
    /\ i + 10 <= Len(s)
    /\ s[i] \in Digit /\ s[i + 1] \in Digit
    /\ s[i + 2] = "-"
    /\ \A k \in {i + 3, i + 4, i + 5} : s[k] \in WordChar
    /\ s[i + 6] = "-"
    /\ \A k \in {i + 7, i + 8, i + 9, i + 10} : s[k] \in Digit

\* s.replace(/(\d{2})-(\w{3})-(\d{4})/, "$3-$2-$1"): the leftmost match
ReplaceDate(s) ==
    LET hits == {i \in 1..Len(s) : DateRegexAt(s, i)}
    IN  IF hits = {} THEN s
        ELSE LET i == CHOOSE h \in hits : \A g \in hits : h <= g
             IN  SubSeq(s, 1, i - 1)
                   \o SubSeq(s, i + 7, i + 10) \o <<"-">>
                   \o SubSeq(s, i + 3, i + 5) \o <<"-">>
                   \o SubSeq(s, i, i + 1)
                   \o SubSeq(s, i + 11, Len(s))

\* parseDateTime(dateStr); split never throws on a string, so the catch
\* branch (new Date()) is not reachable
parseDateTime(dateStr) ==
    LET parts     == Split(dateStr, " ")
        datePart  == At(parts, 1)
        timePart  == At(parts, 2)
        dmy       == Split(datePart, "-")
        day       == At(dmy, 1)
        month     == At(dmy, 2)
        year      == At(dmy, 3)
        formattedDate == Str(year) \o <<"-">> \o Str(monthMap(month)) \o <<"-">>
                           \o Str(day) \o <<"T">> \o Str(timePart)
    IN  NewDate(formattedDate)

-----------------------------------------------------------------------------
(* The time-gap aggregation (the useMemo timeGapData) *)

\* record.logDate.split(" ")[0]
DayOf(logDate) == At(Split(logDate, " "), 1)

\* the grouping key `${employeeName}-${employeeCode}-${day}`
GroupKey(record) ==
    record.employeeName \o <<"-">> \o record.employeeCode \o <<"-">>
        \o DayOf(record.logDate)

\* the keys of the accumulator, in the order of their first insertion
RECURSIVE KeysOf(_)
KeysOf(records) ==
    IF Len(records) = 0 THEN << >>
    ELSE LET front == KeysOf(SubSeq(records, 1, Len(records) - 1))
             key   == GroupKey(records[Len(records)])
         IN  IF \E i \in 1..Len(front) : front[i] = key
             THEN front
             ELSE Append(front, key)

\* acc[key]: the records pushed under key, in input order
GroupOf(records, key) ==
    LET Has(record) == GroupKey(record) = key
    IN  SelectSeq(records, Has)

\* the sort comparator: dateA.getTime() - dateB.getTime(); NaN when either
\* Date is invalid, which sort reads as +0
Compare(a, b) ==
    LET dateA == NewDate(ReplaceDate(a.logDate))
        dateB == NewDate(ReplaceDate(b.logDate))
    IN  IF dateA.valid /\ dateB.valid THEN dateA.time - dateB.time ELSE 0

\* x inserted into the sorted run, after every element not greater than it
RECURSIVE InsertSorted(_, _)
InsertSorted(run, x) ==
    IF Len(run) = 0 THEN <<x>>
    ELSE IF Compare(run[Len(run)], x) > 0
         THEN Append(InsertSorted(SubSeq(run, 1, Len(run) - 1), x), run[Len(run)])
         ELSE Append(run, x)

\* records.sort(comparator): a stable insertion sort
RECURSIVE SortRecords(_)
SortRecords(records) ==
    IF Len(records) = 0 THEN << >>
    ELSE InsertSorted(SortRecords(SubSeq(records, 1, Len(records) - 1)),
                      records[Len(records)])

NaNStr == <<"N", "a", "N">>

\* `${hours}h ${minutes}m ${seconds}s` of the two parsed Dates
FormatGap(firstTime, lastTime) ==
    IF firstTime.valid /\ lastTime.valid
    THEN LET diff == lastTime.time - firstTime.time
             diffInSeconds == IF diff < 0 THEN -diff ELSE diff
             hours   == diffInSeconds \div 3600
             minutes == (diffInSeconds % 3600) \div 60
             seconds == diffInSeconds % 60
         IN  NatToStr(hours) \o <<"h", " ">> \o NatToStr(minutes) \o <<"m", " ">>
                \o NatToStr(seconds) \o <<"s">>
    ELSE NaNStr \o <<"h", " ">> \o NaNStr \o <<"m", " ">> \o NaNStr \o <<"s">>

ZeroGap == <<"0", "h", " ", "0", "m", " ", "0", "s">>

\* the summary of one entry [key, records] of the accumulator
SummaryOf(key, records) ==
    LET parts         == Split(key, "-")
        employeeName  == At(parts, 1)
        employeeCode  == At(parts, 2)
        sortedRecords == SortRecords(records)
        firstRecord   == sortedRecords[1]
        lastRecord    == sortedRecords[Len(sortedRecords)]
    IN  IF Len(sortedRecords) < 2
        THEN [employeeName |-> employeeName,
              employeeCode |-> employeeCode,
              firstTime    |-> sortedRecords[1].logDate,
              lastTime     |-> sortedRecords[1].logDate,
              totalGap     |-> ZeroGap,
              recordCount  |-> Len(sortedRecords)]
        ELSE [employeeName |-> employeeName,
              employeeCode |-> employeeCode,
              firstTime    |-> firstRecord.logDate,
              lastTime     |-> lastRecord.logDate,
              totalGap     |-> FormatGap(parseDateTime(firstRecord.logDate),
                                         parseDateTime(lastRecord.logDate)),
              recordCount  |-> Len(sortedRecords)]

\* filteredData narrowed by the selected date
FilteredByDate(records, date) ==
    LET OnDate(item) == Includes(item.logDate, date)
    IN  IF date # EmptyStr THEN SelectSeq(records, OnDate) ELSE records

\* the rows whose employeeCode is all digits
ValidRecords(records) ==
    LET Valid(r) == IsDigitString(r.employeeCode)
    IN  SelectSeq(records, Valid)

\* the memo body, as a function of its two dependencies
TimeGaps(records, date) ==
    IF Len(records) = 0 THEN << >>
    ELSE LET validRecords == ValidRecords(FilteredByDate(records, date))
             keys         == KeysOf(validRecords)
         IN  [k \in 1..Len(keys) |-> SummaryOf(keys[k], GroupOf(validRecords, keys[k]))]

timeGapData == TimeGaps(filteredData, selectedDate)

-----------------------------------------------------------------------------
(* The worksheet and its decoding (XLSX.utils.sheet_to_json)                 *)
(*                                                                           *)
(* A sheet is the sequence of its rows from row 0 on; a row is the sequence  *)
(* of its cells.  A cell is [t, v]: t = "s" a string with characters v,      *)
(* t = "n" a number whose decimal digits are v, t = "z" no cell at all.      *)

S(chars) == [t |-> "s", v |-> chars]

N(digits) == [t |-> "n", v |-> digits]

NoCell == [t |-> "z", v |-> EmptyStr]

\* the value defval: ""
DefVal == S(EmptyStr)

Max(set) == CHOOSE x \in set : \A y \in set : y <= x

\* the columns of the sheet's range
Width(sheet) == Max({0} \cup {Len(sheet[r]) : r \in 1..Len(sheet)})

CellAt(row, c) == IF c \in 1..Len(row) THEN row[c] ELSE NoCell

\* make_json_row's isempty: the row has no cell with a value
IsBlankRow(row) == \A c \in 1..Len(row) : row[c].t = "z"

\* the values of one row over the range, defval where the cell is missing
RowValues(sheet, row) ==
    [c \in 1..Width(sheet) |->
        IF CellAt(row, c).t = "z" THEN DefVal ELSE CellAt(row, c)]

\* sheet_to_json(ws, {header: 1, blankrows: false, defval: ""}): the 2D
\* array, without the blank rows
RawRows(sheet) ==
    LET NotBlank(row) == ~IsBlankRow(row)
        kept == SelectSeq(sheet, NotBlank)
    IN  [i \in 1..Len(kept) |-> RowValues(sheet, kept[i])]

LogDateLabel == <<"L", "o", "g", " ", "D", "a", "t", "e">>

DirectionLabel == <<"D", "i", "r", "e", "c", "t", "i", "o", "n">>

EmployeeCodeLabel == <<"E", "m", "p", "l", "o", "y", "e", "e", " ", "C", "o", "d", "e">>

EmployeeNameLabel == <<"E", "m", "p", "l", "o", "y", "e", "e", " ", "N", "a", "m", "e">>

CompanyLabel == <<"C", "o", "m", "p", "a", "n", "y">>

DepartmentLabel == <<"D", "e", "p", "a", "r", "t", "m", "e", "n", "t">>

\* r.some(cell => typeof cell === "string" && cell.trim() === "Log Date")
IsHeaderRow(r) ==
    \E c \in 1..Len(r) : r[c].t = "s" /\ Trim(r[c].v) = LogDateLabel

\* rows.findIndex(...): 0-based, -1 when no row qualifies
HeaderRowIndex(rows) ==
    LET hits == {i \in 1..Len(rows) : IsHeaderRow(rows[i])}
    IN  IF hits = {} THEN -1
        ELSE (CHOOSE h \in hits : \A g \in hits : h <= g) - 1

\* the header row's cells: trimmed if a string, String(h) otherwise
Headers(rows, headerRowIndex) ==
    LET r == rows[headerRowIndex + 1]
    IN  [c \in 1..Len(r) |-> IF r[c].t = "s" THEN Trim(r[c].v) ELSE r[c].v]

\* sheet_to_json(ws, {header: headers, range: headerRowIndex, defval: ""}):
\* with an array of headers the first row of the range is a data row, and
\* a numeric range is the sheet's row number at which the range starts
JsonData(sheet, headerRowIndex) ==
    LET inRange == SubSeq(sheet, headerRowIndex + 1, Len(sheet))
        NotBlank(row) == ~IsBlankRow(row)
        kept == SelectSeq(inRange, NotBlank)
    IN  [i \in 1..Len(kept) |-> RowValues(sheet, kept[i])]

\* String(row[name] || ""): the last column under that header wins; a
\* missing key, "" and the number 0 all give ""
FieldOf(headers, row, name) ==
    LET cols == {c \in 1..Len(headers) : headers[c] = name}
    IN  IF cols = {} THEN EmptyStr
        ELSE LET cell == row[Max(cols)]
             IN  IF cell.t = "n" /\ cell.v = <<"0">> THEN EmptyStr ELSE cell.v

\* the records the load handler builds from a sheet that has a header row
processedData(sheet) ==
    LET rows           == RawRows(sheet)
        headerRowIndex == HeaderRowIndex(rows)
        headers        == Headers(rows, headerRowIndex)
        jsonData       == JsonData(sheet, headerRowIndex)
    IN  [i \in 1..Len(jsonData) |->
            [id           |-> i,
             logDate      |-> FieldOf(headers, jsonData[i], LogDateLabel),
             direction    |-> FieldOf(headers, jsonData[i], DirectionLabel),
             employeeCode |-> FieldOf(headers, jsonData[i], EmployeeCodeLabel),
             employeeName |-> FieldOf(headers, jsonData[i], EmployeeNameLabel),
             company      |-> FieldOf(headers, jsonData[i], CompanyLabel),
             department   |-> FieldOf(headers, jsonData[i], DepartmentLabel)]]

-----------------------------------------------------------------------------
(* The files offered to the dashboard *)

T0800 == <<"2", "5", "-", "J", "u", "n", "-", "2", "0", "2", "5", " ", "0", "8", ":", "0", "0", ":", "0", "0">>

T1200 == <<"2", "5", "-", "J", "u", "n", "-", "2", "0", "2", "5", " ", "1", "2", ":", "0", "0", ":", "0", "0">>

T1730 == <<"2", "5", "-", "J", "u", "n", "-", "2", "0", "2", "5", " ", "1", "7", ":", "3", "0", ":", "1", "5">>

NextDay == <<"2", "6", "-", "J", "u", "n", "-", "2", "0", "2", "5", " ", "0", "9", ":", "0", "0", ":", "0", "0">>

NoTime == <<"2", "5", "-", "J", "u", "n", "-", "2", "0", "2", "5">>

BadMonth == <<"2", "5", "-", "X", "y", "z", "-", "2", "0", "2", "5", " ", "0", "8", ":", "0", "0", ":", "0", "0">>

\* data rows: Log Date, Direction, Employee Code, Employee Name and, in the
\* rows that have them, Company and Department
RowPool ==
    << <<S(T0800), S(<<"I">>), S(<<"7">>), S(<<"A">>), S(<<"C">>), S(<<"D">>)>>,
       <<S(T1730), S(<<"O">>), S(<<"7">>), S(<<"A">>), S(<<"C">>), S(<<"D">>)>>,
       <<S(NoTime), S(<<"I">>), S(<<"7">>), S(<<"A">>)>>,
       <<S(BadMonth), S(<<"I">>), S(<<"7">>), S(<<"A">>)>>,
       <<S(T0800), S(<<"I">>), S(<<"7">>), S(<<"A", "-", "B">>)>>,
       <<S(T0800), S(<<"I">>), S(<<"X", "7">>), S(<<"A">>)>>,
       <<S(NextDay), S(<<"I">>), N(<<"1", "0", "1">>), S(<<"A">>), N(<<"0">>)>>,
       <<S(T1200), S(<<"O">>), S(<<"7">>), S(<<"A">>)>> >>

HeaderRow ==
    <<S(LogDateLabel), S(DirectionLabel), S(EmployeeCodeLabel),
      S(EmployeeNameLabel), S(CompanyLabel), S(DepartmentLabel)>>

\* the same labels with blanks around "Log Date"
PaddedHeaderRow ==
    <<S(<<" ">> \o LogDateLabel \o <<" ">>), S(DirectionLabel),
      S(EmployeeCodeLabel), S(EmployeeNameLabel), S(CompanyLabel),
      S(DepartmentLabel)>>

BannerRow == <<S(<<"R">>)>>

Layouts == {"plain", "banner", "offset", "noheader"}

NoFile == [layout |-> "", rows |-> << >>]

\* the sheet of a file: its leading rows by layout, then its data rows
SheetOf(file) ==
    LET rows == [i \in 1..Len(file.rows) |-> RowPool[file.rows[i]]]
    IN  CASE file.layout = "plain"    -> <<HeaderRow>> \o rows
          [] file.layout = "banner"   -> <<BannerRow, PaddedHeaderRow>> \o rows
          [] file.layout = "offset"   -> << << >>, BannerRow, HeaderRow>> \o rows
          [] file.layout = "noheader" -> <<BannerRow>> \o rows

\* the files a user may drop on the dashboard
UploadFiles ==
    {[layout |-> "plain", rows |-> <<2, 1>>],
     [layout |-> "plain", rows |-> << >>],
     [layout |-> "banner", rows |-> <<5, 7>>],
     [layout |-> "offset", rows |-> <<1>>],
     [layout |-> "noheader", rows |-> <<1>>]}

\* every sheet of a header row and at most MaxRows data rows
GeneratedFiles ==
    {[layout |-> "plain", rows |-> rs] :
        rs \in UNION {[1..n -> 1..Len(RowPool)] : n \in 0..MaxRows}}

HasHeader(file) == HeaderRowIndex(RawRows(SheetOf(file))) >= 0

-----------------------------------------------------------------------------
(* The component's state and handlers *)

Op(name, file) == [op |-> name, file |-> file]

Init ==
    /\ data = << >>
    /\ filteredData = << >>
    /\ selectedDate = EmptyStr
    /\ selectedEmployee = EmptyStr
    /\ selectedEmployeeCode = EmptyStr
    /\ pending = EmptyBag
    /\ legacyDateParse \in BOOLEAN
    /\ lastOp = Op("init", NoFile)

\* the upload card is rendered only while there is no data
UploadVisible == Len(data) = 0

\* the filters card is rendered only when there is data
DashboardVisible == Len(data) > 0

\* onDrop: no accepted file returns at once; otherwise the read starts
onDrop(acceptedFiles) ==
    /\ UploadVisible
    /\ IF Len(acceptedFiles) = 0
       THEN /\ lastOp' = Op("onDrop", NoFile)
            /\ UNCHANGED pending
       ELSE /\ BagCardinality(pending) < MaxPending
            /\ pending' = pending (+) SetToBag({acceptedFiles[1]})
            /\ lastOp' = Op("onDrop", acceptedFiles[1])
    /\ UNCHANGED <<data, filteredData, selectedDate, selectedEmployee,
                   selectedEmployeeCode, legacyDateParse>>

\* onload without the reset of the filters
onload_keepsCriteria(file) ==
    /\ BagIn(file, pending)
    /\ pending' = pending (-) SetToBag({file})
    /\ lastOp' = Op("onload", file)
    /\ IF HeaderRowIndex(RawRows(SheetOf(file))) < 0
       THEN UNCHANGED <<data, filteredData, selectedDate, selectedEmployee,
                        selectedEmployeeCode>>
       ELSE /\ data' = processedData(SheetOf(file))
            /\ filteredData' = processedData(SheetOf(file))
            /\ UNCHANGED <<selectedDate, selectedEmployee, selectedEmployeeCode>>
    /\ UNCHANGED legacyDateParse

\* onload that empties the record sets when no header row is found
onload_clearsOnError(file) ==
    /\ BagIn(file, pending)
    /\ pending' = pending (-) SetToBag({file})
    /\ lastOp' = Op("onload", file)
    /\ IF HeaderRowIndex(RawRows(SheetOf(file))) < 0
       THEN /\ data' = << >>
            /\ filteredData' = << >>
            /\ UNCHANGED <<selectedDate, selectedEmployee, selectedEmployeeCode>>
       ELSE /\ data' = processedData(SheetOf(file))
            /\ filteredData' = processedData(SheetOf(file))
            /\ selectedDate' = EmptyStr
            /\ selectedEmployee' = EmptyStr
            /\ selectedEmployeeCode' = EmptyStr
    /\ UNCHANGED legacyDateParse

\* reader.onload: the read of file has completed
onload(file) ==
    /\ BagIn(file, pending)
    /\ pending' = pending (-) SetToBag({file})
    /\ lastOp' = Op("onload", file)
    /\ IF HeaderRowIndex(RawRows(SheetOf(file))) < 0
       THEN UNCHANGED <<data, filteredData, selectedDate, selectedEmployee,
                        selectedEmployeeCode>>
       ELSE /\ data' = processedData(SheetOf(file))
            /\ filteredData' = processedData(SheetOf(file))
            /\ selectedDate' = EmptyStr
            /\ selectedEmployee' = EmptyStr
            /\ selectedEmployeeCode' = EmptyStr
    /\ UNCHANGED legacyDateParse

\* the options of the three selects (their order is not modelled)
uniqueDates ==
    {DayOf(data[i].logDate) : i \in {j \in 1..Len(data) : data[j].logDate # EmptyStr}}
        \ {EmptyStr}

uniqueEmployees == {data[i].employeeName : i \in 1..Len(data)} \ {EmptyStr}

uniqueEmployeeCodes == {data[i].employeeCode : i \in 1..Len(data)} \ {EmptyStr}

setSelectedDate(value) ==
    /\ DashboardVisible
    /\ value \in uniqueDates
    /\ selectedDate' = value
    /\ lastOp' = Op("setSelectedDate", NoFile)
    /\ UNCHANGED <<data, filteredData, selectedEmployee, selectedEmployeeCode,
                   pending, legacyDateParse>>

setSelectedEmployee(value) ==
    /\ DashboardVisible
    /\ value \in uniqueEmployees
    /\ selectedEmployee' = value
    /\ lastOp' = Op("setSelectedEmployee", NoFile)
    /\ UNCHANGED <<data, filteredData, selectedDate, selectedEmployeeCode,
                   pending, legacyDateParse>>

setSelectedEmployeeCode(value) ==
    /\ DashboardVisible
    /\ value \in uniqueEmployeeCodes
    /\ selectedEmployeeCode' = value
    /\ lastOp' = Op("setSelectedEmployeeCode", NoFile)
    /\ UNCHANGED <<data, filteredData, selectedDate, selectedEmployee,
                   pending, legacyDateParse>>

\* the passes with the date compared for equality instead of containment
Filtered_dateEquals(records, date, employee, code) ==
    LET OnDate(item) == item.logDate = date
        Named(item)  == item.employeeName = employee
        Coded(item)  == item.employeeCode = code
        byDate == IF date # EmptyStr THEN SelectSeq(records, OnDate) ELSE records
        byName == IF employee # EmptyStr THEN SelectSeq(byDate, Named) ELSE byDate
    IN  IF code # EmptyStr THEN SelectSeq(byName, Coded) ELSE byName

\* the three conditional passes of applyFilters over data
Filtered(records, date, employee, code) ==
    LET OnDate(item) == Includes(item.logDate, date)
        Named(item)  == item.employeeName = employee
        Coded(item)  == item.employeeCode = code
        byDate == IF date # EmptyStr THEN SelectSeq(records, OnDate) ELSE records
        byName == IF employee # EmptyStr THEN SelectSeq(byDate, Named) ELSE byDate
    IN  IF code # EmptyStr THEN SelectSeq(byName, Coded) ELSE byName

applyFilters ==
    /\ DashboardVisible
    /\ filteredData' = Filtered(data, selectedDate, selectedEmployee,
                                selectedEmployeeCode)
    /\ lastOp' = Op("applyFilters", NoFile)
    /\ UNCHANGED <<data, selectedDate, selectedEmployee, selectedEmployeeCode,
                   pending, legacyDateParse>>

\* clearFilters that forgets the employee-code criterion
clearFilters_keepsCode ==
    /\ DashboardVisible
    /\ selectedDate' = EmptyStr
    /\ selectedEmployee' = EmptyStr
    /\ filteredData' = data
    /\ lastOp' = Op("clearFilters", NoFile)
    /\ UNCHANGED <<data, selectedEmployeeCode, pending, legacyDateParse>>

clearFilters ==
    /\ DashboardVisible
    /\ selectedDate' = EmptyStr
    /\ selectedEmployee' = EmptyStr
    /\ selectedEmployeeCode' = EmptyStr
    /\ filteredData' = data
    /\ lastOp' = Op("clearFilters", NoFile)
    /\ UNCHANGED <<data, pending, legacyDateParse>>

Next ==
    \/ \E files \in {<< >>} \cup {<<f>> : f \in UploadFiles} : onDrop(files)
    \/ \E file \in UploadFiles : onload(file)
    \/ \E value \in uniqueDates : setSelectedDate(value)
    \/ \E value \in uniqueEmployees : setSelectedEmployee(value)
    \/ \E value \in uniqueEmployeeCodes : setSelectedEmployeeCode(value)
    \/ applyFilters
    \/ clearFilters

Spec == Init /\ [][Next]_vars

\* The aggregation over every generated sheet: the read of one generated
\* file is in flight, it completes, and the filters are used.
AggInit ==
    /\ data = << >>
    /\ filteredData = << >>
    /\ selectedDate = EmptyStr
    /\ selectedEmployee = EmptyStr
    /\ selectedEmployeeCode = EmptyStr
    /\ legacyDateParse \in BOOLEAN
    /\ \E file \in GeneratedFiles :
          /\ pending = SetToBag({file})
          /\ lastOp = Op("onDrop", file)

AggNext ==
    \/ \E file \in GeneratedFiles : onload(file)
    \/ \E value \in uniqueDates : setSelectedDate(value)
    \/ applyFilters
    \/ clearFilters

AggSpec == AggInit /\ [][AggNext]_vars

-----------------------------------------------------------------------------
(* What the claims speak of *)

\* the records the aggregation reads: those of the filtered set that pass
\* the date criterion and have an all-digit employeeCode
Aggregated ==
    LET Reads(r) == /\ (selectedDate = EmptyStr \/ Includes(r.logDate, selectedDate))
                    /\ IsDigitString(r.employeeCode)
    IN  SelectSeq(filteredData, Reads)

TripleOf(r) == <<r.employeeName, r.employeeCode, DayOf(r.logDate)>>

Triples == {TripleOf(Aggregated[i]) : i \in 1..Len(Aggregated)}

CountOf(triple) ==
    Cardinality({i \in 1..Len(Aggregated) : TripleOf(Aggregated[i]) = triple})

\* the records behind the k-th summary: those of the k-th key inserted
GroupOfSummary(k) == GroupOf(Aggregated, KeysOf(Aggregated)[k])

\* a number followed by the one-letter unit, as [ok, n]
GapPart(part, unit) ==
    IF /\ Len(part) >= 2
       /\ part[Len(part)] = unit
       /\ AllDigits(SubSeq(part, 1, Len(part) - 1))
    THEN [ok |-> TRUE, n |-> DigitsToNat(SubSeq(part, 1, Len(part) - 1))]
    ELSE [ok |-> FALSE, n |-> 0]

\* totalGap read back as "{h}h {m}m {s}s"
GapOf(totalGap) ==
    LET parts == Split(totalGap, " ")
        h == GapPart(At(parts, 1), "h")
        m == GapPart(At(parts, 2), "m")
        s == GapPart(At(parts, 3), "s")
    IN  [ok |-> Len(parts) = 3 /\ h.ok /\ m.ok /\ s.ok,
         h |-> h.n, m |-> m.n, s |-> s.n]

\* logDate has the format DD-MMM-YYYY HH:MM:SS
IsTimestamp(logDate) ==
    /\ Len(logDate) = 20
    /\ \A k \in {1, 2, 8, 9, 10, 11} : logDate[k] \in Digit
    /\ logDate[3] = "-" /\ logDate[7] = "-" /\ logDate[12] = " "
    /\ IsMonthName(SubSeq(logDate, 4, 6))
    /\ IsClockAt(logDate, 13)
    /\ DigitsToNat(SubSeq(logDate, 1, 2)) \in 1..31
    /\ DigitsToNat(SubSeq(logDate, 13, 14)) \in 0..23
    /\ DigitsToNat(SubSeq(logDate, 16, 17)) \in 0..59
    /\ DigitsToNat(SubSeq(logDate, 19, 20)) \in 0..59

\* the instant a well-formed logDate names, in seconds
Instant(logDate) ==
    DaysFromCivil(DigitsToNat(SubSeq(logDate, 8, 11)),
                  MonthNumber(SubSeq(logDate, 4, 6)),
                  DigitsToNat(SubSeq(logDate, 1, 2))) * 86400
      + DigitsToNat(SubSeq(logDate, 13, 14)) * 3600
      + DigitsToNat(SubSeq(logDate, 16, 17)) * 60
      + DigitsToNat(SubSeq(logDate, 19, 20))

Abs(x) == IF x < 0 THEN -x ELSE x

Loaded == lastOp.op = "onload" /\ HasHeader(lastOp.file)

-----------------------------------------------------------------------------
(* C1: the aggregation produces exactly one summary per distinct triple     *)
(* (employeeName, employeeCode, calendar day) among the records it reads;   *)
(* the summary carries the triple's name and code, and its recordCount is   *)
(* the number of records of that triple.                                    *)
C1_OneSummaryPerTriple ==
    /\ Len(timeGapData) = Cardinality(Triples)
    /\ \A triple \in Triples :
          \E k \in 1..Len(timeGapData) :
              /\ timeGapData[k].employeeName = triple[1]
              /\ timeGapData[k].employeeCode = triple[2]
              /\ DayOf(timeGapData[k].firstTime) = triple[3]
              /\ timeGapData[k].recordCount = CountOf(triple)

(* C2: records whose employeeCode is not all digits are counted in no       *)
(* summary, and every summary's employeeCode is a non-empty string of       *)
(* digits.                                                                  *)
C2_OnlyDigitCodes ==
    /\ \A k \in 1..Len(timeGapData) :
          /\ IsDigitString(timeGapData[k].employeeCode)
          /\ timeGapData[k].recordCount = Len(GroupOfSummary(k))
    /\ \A k \in 1..Len(timeGapData) :
          \A i \in 1..Len(GroupOfSummary(k)) :
              IsDigitString(GroupOfSummary(k)[i].employeeCode)

(* C3: in every group of well-formed timestamps firstTime is the logDate of *)
(* a chronologically earliest record and lastTime that of a latest one,     *)
(* whatever the input order; a group of one record has firstTime = lastTime *)
(* = its logDate and totalGap "0h 0m 0s".                                   *)
C3_FirstAndLastChronological ==
    \A k \in 1..Len(timeGapData) :
        LET group == GroupOfSummary(k)
            dates == {group[i].logDate : i \in 1..Len(group)}
        IN  /\ (\A d \in dates : IsTimestamp(d)) =>
                  /\ timeGapData[k].firstTime \in dates
                  /\ timeGapData[k].lastTime \in dates
                  /\ \A d \in dates :
                        /\ Instant(timeGapData[k].firstTime) <= Instant(d)
                        /\ Instant(d) <= Instant(timeGapData[k].lastTime)
            /\ Len(group) = 1 =>
                  /\ timeGapData[k].firstTime = group[1].logDate
                  /\ timeGapData[k].lastTime = group[1].logDate
                  /\ timeGapData[k].totalGap = ZeroGap

(* C4: every totalGap reads "{h}h {m}m {s}s" with natural numbers h, m < 60 *)
(* and s < 60 whose total h*3600 + m*60 + s is the absolute difference, in  *)
(* seconds, of the parsed firstTime and lastTime.                           *)
C4_GapDecomposition ==
    \A k \in 1..Len(timeGapData) :
        LET gap   == GapOf(timeGapData[k].totalGap)
            first == parseDateTime(timeGapData[k].firstTime)
            last  == parseDateTime(timeGapData[k].lastTime)
        IN  /\ gap.ok
            /\ gap.m < 60 /\ gap.s < 60
            /\ (first.valid /\ last.valid) =>
                  gap.h * 3600 + gap.m * 60 + gap.s = Abs(last.time - first.time)

(* C9: when the first or the last logDate of a group of two or more records *)
(* is not of the format DD-MMM-YYYY HH:MM:SS, the aggregation still yields  *)
(* a totalGap of the form "{h}h {m}m {s}s" with natural numbers.            *)
C9_UnparsableDateStillGap ==
    \A k \in 1..Len(timeGapData) :
        (/\ timeGapData[k].recordCount >= 2
         /\ (~IsTimestamp(timeGapData[k].firstTime)
                \/ ~IsTimestamp(timeGapData[k].lastTime)))
            => GapOf(timeGapData[k].totalGap).ok

\* a record satisfies every criterion that is not empty
Passes(item) ==
    /\ (selectedDate = EmptyStr \/ Includes(item.logDate, selectedDate))
    /\ (selectedEmployee = EmptyStr \/ item.employeeName = selectedEmployee)
    /\ (selectedEmployeeCode = EmptyStr \/ item.employeeCode = selectedEmployeeCode)

NoCriteria ==
    /\ selectedDate = EmptyStr
    /\ selectedEmployee = EmptyStr
    /\ selectedEmployeeCode = EmptyStr

(* C5: after applyFilters the filtered set holds exactly the records of the *)
(* working set that satisfy every non-empty criterion, once each and in     *)
(* their original order; with no criterion it is the working set.           *)
C5_ApplyFiltersConjunction ==
    lastOp.op = "applyFilters" =>
        /\ \A k \in 1..Len(filteredData) :
              /\ filteredData[k].id \in 1..Len(data)
              /\ filteredData[k] = data[filteredData[k].id]
        /\ {filteredData[k].id : k \in 1..Len(filteredData)}
              = {i \in 1..Len(data) : Passes(data[i])}
        /\ \A k, l \in 1..Len(filteredData) :
              k < l => filteredData[k].id < filteredData[l].id
        /\ NoCriteria => filteredData = data

C5_Witness ==
    /\ lastOp.op = "applyFilters"
    /\ selectedEmployee # EmptyStr
    /\ selectedDate # EmptyStr
    /\ Len(filteredData) >= 1
    /\ Len(filteredData) < Len(data)

\* the string of a cell, "" when the cell is missing
CellText(headers, row, name) ==
    LET cols == {c \in 1..Len(headers) : headers[c] = name}
    IN  IF cols = {} THEN EmptyStr ELSE row[Max(cols)].v

\* the records of the rows strictly below the header row of the raw grid
RecordsBelowHeader(sheet) ==
    LET rows    == RawRows(sheet)
        h       == HeaderRowIndex(rows) + 1
        headers == Headers(rows, h - 1)
    IN  [i \in 1..(Len(rows) - h) |->
            [id           |-> i,
             logDate      |-> CellText(headers, rows[h + i], LogDateLabel),
             direction    |-> CellText(headers, rows[h + i], DirectionLabel),
             employeeCode |-> CellText(headers, rows[h + i], EmployeeCodeLabel),
             employeeName |-> CellText(headers, rows[h + i], EmployeeNameLabel),
             company      |-> CellText(headers, rows[h + i], CompanyLabel),
             department   |-> CellText(headers, rows[h + i], DepartmentLabel)]]

(* C6: a load of a grid with a "Log Date" row yields one record per row     *)
(* strictly below the first such row, in row order, with ids 1..N and each  *)
(* field the string of the cell under its header, "" when missing.          *)
C6_OneRecordPerRowBelowHeader ==
    Loaded => data = RecordsBelowHeader(SheetOf(lastOp.file))

\* the records of a sequence, as a set
Range(seq) == {seq[i] : i \in 1..Len(seq)}

(* C7: a successful load leaves the working set equal to the records of     *)
(* that file, the filtered set equal to it and the three criteria empty;    *)
(* and in every state the filtered set and the criteria belong to the file  *)
(* the working set came from.                                               *)
C7_LoadReplacesEverything ==
    /\ Loaded =>
          /\ data = processedData(SheetOf(lastOp.file))
          /\ filteredData = data
          /\ NoCriteria
    /\ Range(filteredData) \subseteq Range(data)
    /\ selectedDate \in uniqueDates \cup {EmptyStr}
    /\ selectedEmployee \in uniqueEmployees \cup {EmptyStr}
    /\ selectedEmployeeCode \in uniqueEmployeeCodes \cup {EmptyStr}
    /\ data # << >> =>
          \E file \in UploadFiles :
              HasHeader(file) /\ data = processedData(SheetOf(file))

\* a successful load completes while another read is still in flight
C7_Witness ==
    /\ Loaded
    /\ BagCardinality(pending) > 0
    /\ Len(data) >= 2

(* C8, as claimed: after the load of a grid without a "Log Date" row the    *)
(* working set is empty, whatever the state was before.                     *)
C8_FailedLoadEmptiesData ==
    (lastOp.op = "onload" /\ ~HasHeader(lastOp.file)) => data = << >>

(* C8, amended: the load of a grid without a "Log Date" row changes neither *)
(* the working set, nor the filtered set, nor the criteria; the working set *)
(* is empty after it exactly when it was empty before.                      *)
C8_FailedLoadChangesNothing ==
    [][(lastOp'.op = "onload" /\ ~HasHeader(lastOp'.file)) =>
          UNCHANGED <<data, filteredData, selectedDate, selectedEmployee,
                      selectedEmployeeCode>>]_vars

\* a load without a header row has completed over a dashboard with data
C8_Witness ==
    /\ lastOp.op = "onload"
    /\ ~HasHeader(lastOp.file)
    /\ Len(data) > 0

(* C10: clearFilters leaves the three criteria empty and the filtered set   *)
(* equal to the working set, and does not change the working set.           *)
C10_ClearFiltersResets ==
    [][lastOp'.op = "clearFilters" =>
          /\ selectedDate' = EmptyStr
          /\ selectedEmployee' = EmptyStr
          /\ selectedEmployeeCode' = EmptyStr
          /\ filteredData' = data'
          /\ data' = data]_vars

\* Clear has run on a dashboard with data
C10_Witness ==
    /\ lastOp.op = "clearFilters"
    /\ NoCriteria
    /\ filteredData = data
    /\ Len(data) >= 2

(* C11: in every reachable state the displayed summaries are the            *)
(* aggregation of the working set filtered by the criteria now selected:    *)
(* aggregate(applyFilters(data, criteria)).                                 *)
C11_DisplayFollowsCriteria ==
    timeGapData = TimeGaps(Filtered(data, selectedDate, selectedEmployee,
                                    selectedEmployeeCode),
                           selectedDate)

====
